---- MODULE Spec2Model ----
(***************************************************************************)
(* Model of the crystal structure generator (crystal_structures package):  *)
(* generate_structure, validate_input, validate_structure and the element  *)
(* registry ELEMENTS, together with the behaviour of the three ASE calls   *)
(* generate_structure makes (bulk, Atoms.repeat, get_scaled_positions /    *)
(* cell_to_cellpar).                                                       *)
(*                                                                         *)
(* Python values are tagged records: [t |-> "str", s |-> <<chars>>],       *)
(* [t |-> "int", i |-> k], [t |-> "float", n |-> k], [t |-> "NoneType"],   *)
(* [t |-> "tuple" / "list", v |-> <<items>>].  A str is the sequence of    *)
(* its characters, so that str.lower() is computed character by character. *)
(*                                                                         *)
(* Numbers are exact.  A lattice constant is counted in 0.01 Angstrom      *)
(* (3.61 is 361), a c/a ratio in 0.001 (1.587 is 1587).  Cartesian         *)
(* coordinates are integers: x and z count 1e-5/12 Angstrom; y counts the  *)
(* same unit in the cubic cells and that unit times sqrt(3) in the         *)
(* hexagonal cell, whose y components are all rational multiples of        *)
(* a*sqrt(3).                                                              *)
(***************************************************************************)
EXTENDS Integers, Sequences, FiniteSets, TLC

VARIABLES
    ELEMENTS,   \* the element registry (module-level dict of constants.py)
    req,        \* the arguments of the call
    via,        \* the entry point called: "generate_structure" / "validate_input"
    pc,         \* "ready" before the call, "done" after it
    result,     \* what the call produced: exception or record, and its steps
    history     \* the calls of the session so far, in order

vars == <<ELEMENTS, req, via, pc, result, history>>

---------------------------------------------------------------------------
(* Bounds of the model *)

\* largest replication count along an axis
MaxRep == 3

\* number of calls in one session
MaxCalls == 3

\* largest component of a cell vector handed to validate_structure directly
MaxCell == 2

---------------------------------------------------------------------------
(* Python values *)

None == [t |-> "NoneType"]

PyStr(chars) == [t |-> "str", s |-> chars]

PyInt(k) == [t |-> "int", i |-> k]

PyFloat(k) == [t |-> "float", n |-> k]

PyTuple(items) == [t |-> "tuple", v |-> items]

PyList(items) == [t |-> "list", v |-> items]

\* isinstance(x, (int, float))
IsNumber(x) == x.t \in {"int", "float"}

\* the value of a number
NumVal(x) == IF x.t = "int" THEN x.i ELSE x.n

\* an exception raised, or none
Exc(kind, msg) == [kind |-> kind, msg |-> msg]

NoError == [kind |-> "ok", msg |-> ""]

\* str.lower() on one character, for the letters the arguments are written in
LowerChar(c) ==
    CASE c = "A" -> "a" [] c = "B" -> "b" [] c = "C" -> "c" [] c = "F" -> "f"
      [] c = "H" -> "h" [] c = "P" -> "p" [] c = "S" -> "s" [] c = "T" -> "t"
      [] c = "U" -> "u" [] c = "X" -> "x"
      [] OTHER -> c

\* str.lower()
Lower(chars) == [k \in DOMAIN chars |-> LowerChar(chars[k])]

---------------------------------------------------------------------------
(* constants.py *)

fcc == <<"f", "c", "c">>

bcc == <<"b", "c", "c">>

hcp == <<"h", "c", "p">>

\* an ElementProperties instance
ElementProperties(z, structures, constants, hcp_parameters) ==
    [atomic_number |-> z, supported_structures |-> structures,
     lattice_constants |-> constants, hcp_parameters |-> hcp_parameters]

\* a dict with one key
Dict1(key, value) == [k \in {key} |-> value]

\* the registry as constants.py builds it
ElementsTable ==
    [sym \in {<<"C","u">>, <<"F","e">>, <<"T","i">>, <<"A","l">>, <<"N","i">>,
              <<"P","t">>, <<"A","u">>, <<"A","g">>, <<"Z","n">>, <<"M","g">>} |->
        CASE sym = <<"C","u">> -> ElementProperties(29, <<fcc>>, Dict1(fcc, 361), None)
          [] sym = <<"F","e">> -> ElementProperties(26, <<bcc>>, Dict1(bcc, 287), None)
          [] sym = <<"T","i">> -> ElementProperties(22, <<hcp>>, Dict1(hcp, 295),
                                                    [c_over_a |-> 1587])
          [] sym = <<"A","l">> -> ElementProperties(13, <<fcc>>, Dict1(fcc, 405), None)
          [] sym = <<"N","i">> -> ElementProperties(28, <<fcc>>, Dict1(fcc, 352), None)
          [] sym = <<"P","t">> -> ElementProperties(78, <<fcc>>, Dict1(fcc, 392), None)
          [] sym = <<"A","u">> -> ElementProperties(79, <<fcc>>, Dict1(fcc, 408), None)
          [] sym = <<"A","g">> -> ElementProperties(47, <<fcc>>, Dict1(fcc, 409), None)
          [] sym = <<"Z","n">> -> ElementProperties(30, <<hcp>>, Dict1(hcp, 266),
                                                    [c_over_a |-> 1856])
          [] sym = <<"M","g">> -> ElementProperties(12, <<hcp>>, Dict1(hcp, 321),
                                                    [c_over_a |-> 1624])]

VALID_STRUCTURES == <<fcc, bcc, hcp>>

DEFAULT_SUPERCELL_SIZE == PyTuple(<<PyInt(2), PyInt(2), PyInt(2)>>)

\* x in a list
InList(x, list) == \E k \in DOMAIN list : list[k] = x

\* key in dict, for a key of any type (only a str can equal a registry key)
InDict(key, dict) == key.t = "str" /\ key.s \in DOMAIN dict

---------------------------------------------------------------------------
(* validators.py: validate_input *)

\* any(s < 0 for s in size): zero let through
SizeNegative(size) == \E k \in DOMAIN size.v : size.v[k].i < 0

\* any(s <= 0 for s in size), size a 3-tuple of ints
SizeNotPositive(size) == \E k \in DOMAIN size.v : size.v[k].i <= 0

\* the pairing check left out
PairingUnchecked(structure_type, element_props) == FALSE

\* structure_type not in element_props.supported_structures
UnsupportedPairing(structure_type, element_props) ==
    ~InList(structure_type, element_props.supported_structures)

\* the isinstance checks, in the order of the code; NoError when all pass
TypeChecks(element, structure_type, lattice_constant, size, c_over_a) ==
    IF element.t # "str"
    THEN Exc("TypeError", "Element must be a string")
    ELSE IF structure_type.t # "str"
    THEN Exc("TypeError", "Structure type must be a string")
    ELSE IF ~IsNumber(lattice_constant)
    THEN Exc("TypeError", "Lattice constant must be a number")
    ELSE IF size.t # "tuple" \/ Len(size.v) # 3
    THEN Exc("TypeError", "Size must be a 3-tuple of integers")
    ELSE IF \E k \in DOMAIN size.v : size.v[k].t # "int"
    THEN Exc("TypeError", "Size components must be integers")
    ELSE IF c_over_a # None /\ ~IsNumber(c_over_a)
    THEN Exc("TypeError", "c/a ratio must be a number")
    ELSE NoError

\* the value checks, in the order of the code, on arguments of the right types
ValueChecks(element, structure_type, lattice_constant, size, c_over_a) ==
    IF ~InDict(element, ELEMENTS)
    THEN Exc("ValueError", "Unsupported element")
    ELSE LET lowered == Lower(structure_type.s)
             element_props == ELEMENTS[element.s]
         IN  IF ~InList(lowered, VALID_STRUCTURES)
             THEN Exc("ValueError", "Invalid structure type")
             ELSE IF UnsupportedPairing(lowered, element_props)
             THEN Exc("ValueError", "Structure type is not supported for element")
             ELSE IF NumVal(lattice_constant) <= 0
             THEN Exc("ValueError", "Invalid lattice constant")
             ELSE IF SizeNotPositive(size)
             THEN Exc("ValueError", "Invalid supercell size")
             ELSE IF lowered = hcp /\ c_over_a = None
                        /\ element_props.hcp_parameters = None
             THEN Exc("ValueError", "No default c/a ratio")
             ELSE IF lowered = hcp /\ c_over_a # None /\ NumVal(c_over_a) <= 0
             THEN Exc("ValueError", "HCP structures require a positive c/a ratio")
             ELSE NoError

\* validate_input: the exception it raises, or NoError when it returns
validate_input(element, structure_type, lattice_constant, size, c_over_a) ==
    LET typed == TypeChecks(element, structure_type, lattice_constant, size, c_over_a)
    IN  IF typed # NoError
        THEN typed
        ELSE ValueChecks(element, structure_type, lattice_constant, size, c_over_a)

---------------------------------------------------------------------------
(* Exact rational arithmetic, for fractional coordinates *)

Abs(k) == IF k < 0 THEN -k ELSE k

RECURSIVE GCD(_, _)
GCD(a, b) == IF b = 0 THEN a ELSE GCD(b, a % b)

\* the fraction num/den in lowest terms with a positive denominator, den # 0
Rat(num, den) ==
    LET g == GCD(Abs(num), Abs(den))
        sgn == IF den < 0 THEN -1 ELSE 1
    IN  <<(sgn * num) \div g, (sgn * den) \div g>>

RatSub(p, q) == Rat(p[1] * q[2] - q[1] * p[2], p[2] * q[2])

RatScale(p, k) == Rat(p[1] * k, p[2])

RatDivInt(p, k) == Rat(p[1], p[2] * k)

\* p % 1.0
RatMod1(p) == Rat(p[1] % p[2], p[2])

---------------------------------------------------------------------------
(* ASE: ase.build.bulk, Atoms.repeat, Atoms.get_scaled_positions,          *)
(* ase.geometry.cell_to_cellpar, as generator.py and validators.py call    *)
(* them                                                                    *)

\* ase.data.atomic_numbers, for the symbols of the registry
atomic_numbers(symbol) ==
    CASE symbol = <<"C","u">> -> 29 [] symbol = <<"F","e">> -> 26
      [] symbol = <<"T","i">> -> 22 [] symbol = <<"A","l">> -> 13
      [] symbol = <<"N","i">> -> 28 [] symbol = <<"P","t">> -> 78
      [] symbol = <<"A","u">> -> 79 [] symbol = <<"A","g">> -> 47
      [] symbol = <<"Z","n">> -> 30 [] symbol = <<"M","g">> -> 12

\* a lattice constant (0.01 Angstrom) in coordinate units
LengthA(a) == a * 12000

\* a c parameter, the product a * c_over_a (1e-5 Angstrom), in coordinate units
LengthC(c) == c * 12

\* the cell of bulk(): cubic conventional cell for fcc and bcc (cubic=True),
\* hexagonal cell (a,0,0), (-a/2, a*sqrt(3)/2, 0), (0,0,c) for hcp
BulkCell(crystalstructure, a, c) ==
    IF crystalstructure = hcp
    THEN << <<LengthA(a), 0, 0>>,
            <<-(LengthA(a) \div 2), LengthA(a) \div 2, 0>>,
            <<0, 0, LengthC(c)>> >>
    ELSE << <<LengthA(a), 0, 0>>, <<0, LengthA(a), 0>>, <<0, 0, LengthA(a)>> >>

\* bulk() called without cubic=True: the one-atom primitive cell for fcc and bcc
BulkScaledPositionsPrimitive(crystalstructure) ==
    IF crystalstructure = hcp
    THEN << <<0, 0, 0>>, <<2, 4, 3>> >>
    ELSE << <<0, 0, 0>> >>

\* the scaled positions of the basis atoms of bulk(), in sixths of a cell edge
BulkScaledPositions(crystalstructure) ==
    CASE crystalstructure = fcc ->
            << <<0, 0, 0>>, <<0, 3, 3>>, <<3, 0, 3>>, <<3, 3, 0>> >>
      [] crystalstructure = bcc -> << <<0, 0, 0>>, <<3, 3, 3>> >>
      [] crystalstructure = hcp -> << <<0, 0, 0>>, <<2, 4, 3>> >>

\* a row vector of integers times a 3x3 matrix
VecMat(v, m) == [j \in 1..3 |-> v[1] * m[1][j] + v[2] * m[2][j] + v[3] * m[3][j]]

\* bulk(name, crystalstructure, a=a, c=c): Atoms with positions
\* scaled_positions . cell
bulk(name, crystalstructure, a, c) ==
    LET cell == BulkCell(crystalstructure, a, c)
        scaled == BulkScaledPositions(crystalstructure)
    IN  [numbers |-> [b \in DOMAIN scaled |-> atomic_numbers(name)],
         positions |-> [b \in DOMAIN scaled |->
                           [j \in 1..3 |-> VecMat(scaled[b], cell)[j] \div 6]],
         cell |-> cell,
         pbc |-> <<TRUE, TRUE, TRUE>>]

\* the cell left as the unit cell
RepeatCellUnscaled(cell, rep) == cell

\* the columns of the cell scaled, instead of its rows
RepeatCellColumns(cell, rep) == [c \in 1..3 |-> [j \in 1..3 |-> rep[j] * cell[c][j]]]

\* the cell of atoms.repeat(rep): row c of the cell times rep[c]
RepeatCell(cell, rep) == [c \in 1..3 |-> [j \in 1..3 |-> rep[c] * cell[c][j]]]

\* the copies visited with the last axis outermost and the first innermost
RepeatOffsetReversed(block, rep) ==
    <<block % rep[1], (block \div rep[1]) % rep[2], block \div (rep[1] * rep[2])>>

\* the offset (m0, m1, m2) of the copy at position block (from 0) of the
\* loops "for m0 .. for m1 .. for m2" of Atoms.__imul__
RepeatOffset(block, rep) ==
    <<block \div (rep[2] * rep[3]), (block \div rep[3]) % rep[2], block % rep[3]>>

\* atoms.repeat(rep), rep three integers >= 0: the arrays tiled rep[1]*rep[2]*rep[3]
\* times, copy (m0, m1, m2) displaced by (m0, m1, m2) . cell, then the cell scaled
repeat(atoms, rep) ==
    LET n == Len(atoms.positions)
        M == rep[1] * rep[2] * rep[3]
        offset(idx) == VecMat(RepeatOffset((idx - 1) \div n, rep), atoms.cell)
    IN  [numbers |-> [idx \in 1..(n * M) |-> atoms.numbers[((idx - 1) % n) + 1]],
         positions |-> [idx \in 1..(n * M) |->
                           [j \in 1..3 |->
                               atoms.positions[((idx - 1) % n) + 1][j] + offset(idx)[j]]],
         cell |-> RepeatCell(atoms.cell, rep),
         pbc |-> atoms.pbc]

\* the rows of a lower triangular cell are linearly dependent (a zero on the
\* diagonal): numpy.linalg.solve raises LinAlgError on such a matrix
Singular(cell) == cell[1][1] = 0 \/ cell[2][2] = 0 \/ cell[3][3] = 0

\* Cell.scaled_positions: the u with u . cell = position, for the lower
\* triangular cells bulk and repeat build (back substitution from the last axis)
Fractional(cell, position) ==
    LET u3 == Rat(position[3], cell[3][3])
        u2 == RatDivInt(RatSub(<<position[2], 1>>, RatScale(u3, cell[3][2])),
                        cell[2][2])
        u1 == RatDivInt(RatSub(RatSub(<<position[1], 1>>, RatScale(u2, cell[2][1])),
                               RatScale(u3, cell[3][1])),
                        cell[1][1])
    IN  <<u1, u2, u3>>

\* atoms.get_scaled_positions(): wrap defaults to True and every axis is
\* periodic, so each fractional coordinate is reduced modulo 1
get_scaled_positions(atoms) ==
    [idx \in DOMAIN atoms.positions |->
        [j \in 1..3 |->
            IF atoms.pbc[j]
            THEN RatMod1(Fractional(atoms.cell, atoms.positions[idx])[j])
            ELSE Fractional(atoms.cell, atoms.positions[idx])[j]]]

\* the norm of a cell vector is <= 0: it is the zero vector
LengthNotPositive(v) == v[1] = 0 /\ v[2] = 0 /\ v[3] = 0

\* v = k * u for a rational k > 0 (sign = 1) or k < 0 (sign = -1), u and v non-zero
Collinear(u, v, sign) ==
    LET k == CHOOSE j \in 1..3 : u[j] # 0
        ratio == Rat(v[k], u[k])
    IN  /\ sign * ratio[1] > 0
        /\ \A j \in 1..3 : v[j] * ratio[2] = u[j] * ratio[1]

\* the angle of cell_to_cellpar between two cell vectors, in degrees, as the
\* interval it lies in: arccos gives 0 for parallel vectors, 180 for opposite
\* ones, a value strictly between otherwise; 90 when a vector has no length
CellAngle(u, v) ==
    IF LengthNotPositive(u) \/ LengthNotPositive(v) THEN [lo |-> 90, hi |-> 90]
    ELSE IF Collinear(u, v, 1) THEN [lo |-> 0, hi |-> 0]
    ELSE IF Collinear(u, v, -1) THEN [lo |-> 180, hi |-> 180]
    ELSE [lo |-> 1, hi |-> 179]

\* the three angles of cell_to_cellpar: between rows (2,3), (3,1), (1,2)
CellAngles(cell) ==
    <<CellAngle(cell[2], cell[3]), CellAngle(cell[3], cell[1]),
      CellAngle(cell[1], cell[2])>>

---------------------------------------------------------------------------
(* validators.py: validate_structure *)

\* not np.all((scaled_positions >= 0) & (scaled_positions <= 1))
OutsideCell(scaled_positions) ==
    \E idx \in DOMAIN scaled_positions : \E j \in 1..3 :
        ~(scaled_positions[idx][j][1] >= 0
          /\ scaled_positions[idx][j][1] <= scaled_positions[idx][j][2])

\* np.any(np.abs(cellpar[3:]) > 180)
AngleOutOfRange(angles) == \E k \in 1..3 : angles[k].lo > 180

\* a cell vector is the zero vector; Cell.complete() puts a vector independent
\* of the others in its place before the fractional coordinates are solved for
HasZeroVector(cell) == \E c \in 1..3 : LengthNotPositive(cell[c])

\* validate_structure: the exception it raises, or NoError when it returns.
\* get_scaled_positions() solves against the completed cell: it raises when
\* the cell vectors are all non-zero and linearly dependent; on a cell with a
\* zero vector (the others independent) it returns coordinates wrapped into
\* [0, 1), whichever vector completes the cell
validate_structure(atoms) ==
    IF ~HasZeroVector(atoms.cell) /\ Singular(atoms.cell)
    THEN Exc("LinAlgError", "Singular matrix")
    ELSE IF ~HasZeroVector(atoms.cell) /\ OutsideCell(get_scaled_positions(atoms))
    THEN Exc("ValueError", "Some atoms are outside the unit cell")
    ELSE IF \E c \in 1..3 : LengthNotPositive(atoms.cell[c])
    THEN Exc("ValueError", "Invalid cell parameters: some lengths are zero or negative")
    ELSE IF AngleOutOfRange(CellAngles(atoms.cell))
    THEN Exc("ValueError", "Invalid cell parameters: angles must be between 0 and 180 degrees")
    ELSE NoError

---------------------------------------------------------------------------
(* generator.py: generate_structure *)

\* what a call leaves behind: the exception raised (NoError if none), the
\* record returned (None if none) and the steps entered, in order
Outcome(exception, record, trace) ==
    [exception |-> exception, record |-> record, trace |-> trace]

\* the structure type passed on as the caller wrote it
KeepType(structure_type) == structure_type

\* structure_type = structure_type.lower()
NormalizeType(structure_type) == PyStr(Lower(structure_type.s))

\* dict.get(key): the value, or None
DictGet(dict, key) == IF key \in DOMAIN dict THEN PyFloat(dict[key]) ELSE None

\* a missing default made up for by a default of another structure type of
\* the element, leaving the structure type to validate_input
ResolveLatticeConstantAny(element_props, structure_type, lattice_constant) ==
    IF lattice_constant # None THEN lattice_constant
    ELSE IF structure_type.s \in DOMAIN element_props.lattice_constants
    THEN DictGet(element_props.lattice_constants, structure_type.s)
    ELSE DictGet(element_props.lattice_constants,
                 CHOOSE key \in DOMAIN element_props.lattice_constants : TRUE)

\* lines 55-59: the caller's lattice constant, or the registry default (None if
\* the registry has none for this structure type)
ResolveLatticeConstant(element_props, structure_type, lattice_constant) ==
    IF lattice_constant = None
    THEN DictGet(element_props.lattice_constants, structure_type.s)
    ELSE lattice_constant

\* lines 61-64: the caller's c/a ratio, or for hcp the registry default
ResolveCOverA(element_props, structure_type, c_over_a) ==
    IF structure_type.s = hcp /\ c_over_a = None
           /\ element_props.hcp_parameters # None
    THEN DictGet(element_props.hcp_parameters, "c_over_a")
    ELSE c_over_a

\* lines 92-106: the record returned
StructureData(atoms, element, structure_type, lattice_constant, size, c_over_a) ==
    [positions |-> atoms.positions,
     numbers |-> atoms.numbers,
     cell |-> atoms.cell,
     pbc |-> atoms.pbc,
     metadata |-> [element |-> element,
                   structure_type |-> structure_type,
                   lattice_constant |-> lattice_constant,
                   c_over_a |-> IF structure_type.s = hcp THEN c_over_a ELSE None,
                   num_atoms |-> Len(atoms.positions),
                   supercell_size |-> size]]

\* lines 70-84: the base structure, for arguments validate_input accepted
BaseStructure(element, structure_type, lattice_constant, c_over_a) ==
    IF structure_type.s = hcp
    THEN bulk(element.s, hcp, NumVal(lattice_constant),
              NumVal(lattice_constant) * NumVal(c_over_a))
    ELSE bulk(element.s, structure_type.s, NumVal(lattice_constant), 0)

\* atoms.repeat(size[0]): the first count used along the three axes
RepsFirst(size) == [c \in 1..3 |-> size.v[1].i]

\* the argument of atoms.repeat(size): the three counts of the tuple
Reps(size) == [c \in 1..3 |-> size.v[c].i]

\* lines 86-111 without the call of validate_structure
SupercellUnchecked(base, steps, element, structure_type, lattice_constant, size, c_over_a) ==
    IF \E c \in 1..3 : Reps(size)[c] < 0
    THEN Outcome(Exc("ValueError", "negative dimensions are not allowed"), None,
                 steps \o <<"repeat">>)
    ELSE Outcome(NoError,
                 StructureData(repeat(base, Reps(size)), element, structure_type,
                               lattice_constant, size, c_over_a),
                 steps \o <<"repeat", "return">>)

\* lines 86-111: supercell, validation of the structure, record
Supercell(base, steps, element, structure_type, lattice_constant, size, c_over_a) ==
    IF \E c \in 1..3 : Reps(size)[c] < 0
    THEN Outcome(Exc("ValueError", "negative dimensions are not allowed"), None,
                 steps \o <<"repeat">>)
    ELSE LET atoms == repeat(base, Reps(size))
             checked == validate_structure(atoms)
             trace == steps \o <<"repeat", "validate_structure">>
         IN  IF checked # NoError
             THEN Outcome(checked, None, trace)
             ELSE Outcome(NoError,
                          StructureData(atoms, element, structure_type,
                                        lattice_constant, size, c_over_a),
                          trace \o <<"return">>)

\* lines 69-111: the try block, entered after validate_input returned
Build(steps, element, structure_type, lattice_constant, size, c_over_a) ==
    IF structure_type.s = hcp /\ c_over_a = None
    THEN Outcome(Exc("ValueError", "c/a ratio is required for HCP structures"),
                 None, steps)
    ELSE IF ~InList(structure_type.s, VALID_STRUCTURES)
    THEN Outcome(Exc("ValueError", "Unknown structure"), None, steps)
    ELSE Supercell(BaseStructure(element, structure_type, lattice_constant, c_over_a),
                   steps \o <<"bulk">>, element, structure_type,
                   lattice_constant, size, c_over_a)

\* the element checked as validate_input checks it, before the lookup
LookupErrorValidated(element) ==
    IF element.t # "str" THEN Exc("TypeError", "Element must be a string")
    ELSE IF ~InDict(element, ELEMENTS) THEN Exc("ValueError", "Unsupported element")
    ELSE NoError

\* ELEMENTS[element]: KeyError for a key that is not there, TypeError for a
\* key that cannot be hashed, NoError when the lookup succeeds
LookupError(element) ==
    IF element.t = "list" THEN Exc("TypeError", "unhashable type")
    ELSE IF ~InDict(element, ELEMENTS) THEN Exc("KeyError", "element")
    ELSE NoError

\* lines 52-111, with structure_type already normalized
Generate(element, structure_type, lattice_constant, size, c_over_a) ==
    IF LookupError(element) # NoError
    THEN Outcome(LookupError(element), None, <<"lower", "lookup">>)
    ELSE LET element_props == ELEMENTS[element.s]
             resolved == ResolveLatticeConstant(element_props, structure_type,
                                                lattice_constant)
             ratio == ResolveCOverA(element_props, structure_type, c_over_a)
             steps == <<"lower", "lookup", "defaults", "validate_input">>
             valid == validate_input(element, structure_type, resolved, size, ratio)
         IN  IF resolved = None
             THEN Outcome(Exc("ValueError", "No default lattice constant"), None,
                          <<"lower", "lookup", "defaults">>)
             ELSE IF valid # NoError
             THEN Outcome(valid, None, steps)
             ELSE Build(steps, element, structure_type, resolved, size, ratio)

\* generate_structure(element, structure_type, lattice_constant, size, c_over_a)
generate_structure(element, structure_type, lattice_constant, size, c_over_a) ==
    IF structure_type.t # "str"
    THEN Outcome(Exc("AttributeError", "object has no attribute 'lower'"), None,
                 <<"lower">>)
    ELSE Generate(element, NormalizeType(structure_type), lattice_constant, size,
                  c_over_a)

\* the lattice constant of the call remembered as the default of the element
ElementsAfterCaching(element, structure_type, lattice_constant) ==
    IF /\ InDict(element, ELEMENTS)
       /\ structure_type.t = "str"
       /\ lattice_constant # None
       /\ IsNumber(lattice_constant)
    THEN [ELEMENTS EXCEPT ![element.s].lattice_constants =
             [k \in DOMAIN @ \cup {Lower(structure_type.s)} |->
                 IF k = Lower(structure_type.s) THEN NumVal(lattice_constant) ELSE @[k]]]
    ELSE ELEMENTS

\* the registry after generate_structure: the function only reads ELEMENTS
\* (lines 53, 57, 63-64 and validate_input)
ElementsAfter(element, structure_type, lattice_constant) == ELEMENTS

---------------------------------------------------------------------------
(* The calls *)

\* the arguments a caller may pass, right and wrong
ElementArgs ==
    {PyStr(<<"C","u">>), PyStr(<<"F","e">>), PyStr(<<"T","i">>), PyStr(<<"X","X">>),
     PyInt(123), PyList(<<PyStr(<<"C","u">>)>>)}

StructureTypeArgs ==
    {PyStr(fcc), PyStr(<<"F","C","C">>), PyStr(bcc), PyStr(hcp),
     PyStr(<<"H","c","p">>), PyStr(<<"s","c">>), PyInt(123)}

LatticeConstantArgs ==
    {None, PyFloat(400), PyFloat(0), PyFloat(-100), PyStr(<<"3",".","6","1">>)}

COverAArgs == {None, PyFloat(1600), PyFloat(-1000), PyStr(<<"1",".","6">>)}

SizeArgs ==
    {PyTuple(<<PyInt(nx), PyInt(ny), PyInt(nz)>>) :
        nx \in 0..MaxRep, ny \in 0..MaxRep, nz \in 0..MaxRep}
    \cup {PyTuple(<<PyInt(-1), PyInt(2), PyInt(2)>>),
          PyList(<<PyInt(2), PyInt(2), PyInt(2)>>),
          PyTuple(<<PyInt(2), PyInt(2)>>),
          PyTuple(<<PyFloat(2), PyInt(2), PyInt(2)>>)}

Request(element, structure_type, lattice_constant, size, c_over_a) ==
    [element |-> element, structure_type |-> structure_type,
     lattice_constant |-> lattice_constant, size |-> size, c_over_a |-> c_over_a]

Requests ==
    {Request(e, st, lc, sz, ca) :
        e \in ElementArgs, st \in StructureTypeArgs, lc \in LatticeConstantArgs,
        sz \in SizeArgs, ca \in COverAArgs}

\* nothing produced yet
NoResult == Outcome(NoError, None, <<>>)

\* generate_structure on a request
GenerateStructureOf(r) ==
    generate_structure(r.element, r.structure_type, r.lattice_constant, r.size,
                       r.c_over_a)

\* validate_input on a request, called directly
ValidateInputOf(r) ==
    Outcome(validate_input(r.element, r.structure_type, r.lattice_constant, r.size,
                           r.c_over_a),
            None, <<"validate_input">>)

Init ==
    /\ ELEMENTS = ElementsTable
    /\ req \in Requests
    /\ via = "none"
    /\ pc = "ready"
    /\ result = NoResult
    /\ history = <<>>

\* a caller calls generate_structure with the arguments of req
CallGenerateStructure ==
    /\ pc = "ready"
    /\ result' = GenerateStructureOf(req)
    /\ ELEMENTS' = ElementsAfter(req.element, req.structure_type, req.lattice_constant)
    /\ via' = "generate_structure"
    /\ pc' = "done"
    /\ UNCHANGED <<req, history>>

\* a caller calls validate_input with the arguments of req
CallValidateInput ==
    /\ pc = "ready"
    /\ result' = ValidateInputOf(req)
    /\ via' = "validate_input"
    /\ pc' = "done"
    /\ UNCHANGED <<ELEMENTS, req, history>>

Next == CallGenerateStructure \/ CallValidateInput

Spec == Init /\ [][Next]_vars

---------------------------------------------------------------------------
(* A session: several calls of generate_structure, one after the other *)

SessionRequests ==
    {Request(e, st, lc, DEFAULT_SUPERCELL_SIZE, None) :
        e \in {PyStr(<<"C","u">>), PyStr(<<"T","i">>)},
        st \in {PyStr(fcc), PyStr(hcp)},
        lc \in {None, PyFloat(400)}}

SessionInit ==
    /\ ELEMENTS = ElementsTable
    /\ req \in SessionRequests
    /\ via = "none"
    /\ pc = "ready"
    /\ result = NoResult
    /\ history = <<>>

\* the next call of the session runs
SessionCall ==
    /\ pc = "ready"
    /\ Len(history) < MaxCalls
    /\ result' = GenerateStructureOf(req)
    /\ ELEMENTS' = ElementsAfter(req.element, req.structure_type, req.lattice_constant)
    /\ history' = Append(history, [req |-> req, result |-> GenerateStructureOf(req)])
    /\ via' = "generate_structure"
    /\ pc' = "done"
    /\ UNCHANGED req

\* the caller prepares another call
SessionPrepare ==
    /\ pc = "done"
    /\ req' \in SessionRequests
    /\ pc' = "ready"
    /\ UNCHANGED <<ELEMENTS, via, result, history>>

SessionNext == SessionCall \/ SessionPrepare

SpecSession == SessionInit /\ [][SessionNext]_vars

---------------------------------------------------------------------------
(* validate_structure called on a structure of the caller's own making *)

\* an ase.Atoms object: copper atoms at the positions, in the cell
Structure(cell, positions, periodic) ==
    [numbers |-> [idx \in DOMAIN positions |-> atomic_numbers(<<"C","u">>)],
     positions |-> positions, cell |-> cell,
     pbc |-> <<periodic, periodic, periodic>>]

\* lower triangular cells with small integer components: vectors of no
\* length, parallel, opposite and oblique vectors all occur
CellsToValidate ==
    {<<<<a, 0, 0>>, <<bx, by, 0>>, <<cx, cy, cz>>>> :
        a \in 0..MaxCell, by \in 0..MaxCell, cz \in 0..MaxCell,
        bx \in -MaxCell..MaxCell, cx \in -MaxCell..MaxCell, cy \in -MaxCell..MaxCell}

\* the atoms of the structures: one at the origin, two, one off the origin
PositionsToValidate ==
    {<<<<0, 0, 0>>>>, <<<<0, 0, 0>>, <<1, 1, 1>>>>, <<<<-1, 2, 3>>>>}

\* Cell.complete() finds a vector for every zero vector of the cell: a single
\* zero vector needs the two others not to be collinear (their cross product)
Completable(cell) ==
    \A c \in 1..3 :
        LET u == cell[(c % 3) + 1]
            v == cell[((c + 1) % 3) + 1]
        IN  (LengthNotPositive(cell[c]) /\ ~LengthNotPositive(u) /\ ~LengthNotPositive(v))
                => ~(Collinear(u, v, 1) \/ Collinear(u, v, -1))

\* a cell with a zero vector comes with periodic axes, on which the wrapped
\* coordinates do not depend on the vector that completes the cell
StructuresToValidate ==
    {Structure(cell, positions, periodic) :
        cell \in {x \in CellsToValidate : Completable(x)},
        positions \in PositionsToValidate, periodic \in BOOLEAN}
    \ {Structure(cell, positions, FALSE) :
          cell \in {x \in CellsToValidate : HasZeroVector(x)},
          positions \in PositionsToValidate}

\* validate_structure on a structure, called directly
ValidateStructureOf(atoms) ==
    Outcome(validate_structure(atoms), None, <<"validate_structure">>)

ValidateInit ==
    /\ ELEMENTS = ElementsTable
    /\ req \in StructuresToValidate
    /\ via = "none"
    /\ pc = "ready"
    /\ result = NoResult
    /\ history = <<>>

\* a caller calls validate_structure with the structure of req
CallValidateStructure ==
    /\ pc = "ready"
    /\ result' = ValidateStructureOf(req)
    /\ via' = "validate_structure"
    /\ pc' = "done"
    /\ UNCHANGED <<ELEMENTS, req, history>>

ValidateNext == CallValidateStructure

SpecValidate == ValidateInit /\ [][ValidateNext]_vars

---------------------------------------------------------------------------
(* Properties *)

\* generate_structure was called and has ended
Generated == pc = "done" /\ via = "generate_structure"

\* generate_structure returned a record
Returned == Generated /\ result.record # None

\* the position of a step in the steps of the call, 0 if it was not entered
StepIndex(step) ==
    IF \E k \in DOMAIN result.trace : result.trace[k] = step
    THEN CHOOSE k \in DOMAIN result.trace : result.trace[k] = step
    ELSE 0

\* the replication (nx, ny, nz) a request asks for
Replication(r) == <<r.size.v[1].i, r.size.v[2].i, r.size.v[3].i>>

\* the atoms a record describes
AtomsOf(record) ==
    [numbers |-> record.numbers, positions |-> record.positions,
     cell |-> record.cell, pbc |-> record.pbc]

\* the atoms of the conventional cell of a lattice family
BasisCount(family) ==
    CASE family = fcc -> 4 [] family = bcc -> 2 [] family = hcp -> 2

\* C1: every record returned has len(positions) = len(numbers) =
\* metadata.num_atoms = basis_count(family) * nx * ny * nz, for a family among
\* fcc, bcc, hcp and a replication with all components >= 1
C1_AtomCount ==
    Returned =>
        LET record == result.record
            family == record.metadata.structure_type.s
            size == Replication(req)
        IN  /\ family \in {fcc, bcc, hcp}
            /\ family = Lower(req.structure_type.s)
            /\ \A c \in 1..3 : size[c] >= 1
            /\ Len(record.positions) = BasisCount(family) * size[1] * size[2] * size[3]
            /\ Len(record.numbers) = Len(record.positions)
            /\ record.metadata.num_atoms = Len(record.positions)

\* an anisotropic fcc supercell (3,2,1) was returned, with 24 atoms
C1_Witness ==
    /\ Returned
    /\ req.size = PyTuple(<<PyInt(3), PyInt(2), PyInt(1)>>)
    /\ result.record.metadata.structure_type.s = fcc
    /\ result.record.metadata.num_atoms = 24

\* C2: a record is returned only after validate_input and then
\* validate_structure were run and neither raised, the record passing both; a
\* call that raises returns no record
C2_ValidatedBeforeReturn ==
    Generated =>
        /\ result.exception # NoError => result.record = None
        /\ result.record # None =>
              /\ result.exception = NoError
              /\ 0 < StepIndex("validate_input")
              /\ StepIndex("validate_input") < StepIndex("bulk")
              /\ StepIndex("bulk") < StepIndex("repeat")
              /\ StepIndex("repeat") < StepIndex("validate_structure")
              /\ StepIndex("validate_structure") < StepIndex("return")
              /\ validate_input(result.record.metadata.element,
                                result.record.metadata.structure_type,
                                result.record.metadata.lattice_constant,
                                result.record.metadata.supercell_size,
                                result.record.metadata.c_over_a) = NoError
              /\ validate_structure(AtomsOf(result.record)) = NoError

\* a record was returned for a hexagonal supercell, after both validations
C2_Witness ==
    /\ Returned
    /\ result.record.metadata.structure_type.s = hcp
    /\ result.record.metadata.num_atoms > 2
    /\ StepIndex("validate_structure") > 0

\* an otherwise valid request: element of the registry, a family the element
\* supports, lattice constant absent or positive, c/a absent or a number
OtherwiseValid(r) ==
    /\ InDict(r.element, ElementsTable)
    /\ r.structure_type.t = "str"
    /\ InList(Lower(r.structure_type.s),
              ElementsTable[r.element.s].supported_structures)
    /\ r.lattice_constant = None
          \/ (IsNumber(r.lattice_constant) /\ NumVal(r.lattice_constant) > 0)
    /\ r.c_over_a = None \/ IsNumber(r.c_over_a)

\* a 3-tuple of ints with a component <= 0
NonPositiveSize(size) ==
    /\ size.t = "tuple"
    /\ Len(size.v) = 3
    /\ \A k \in 1..3 : size.v[k].t = "int"
    /\ \E k \in 1..3 : size.v[k].i <= 0

\* C3: an otherwise valid request with a replication component <= 0 fails
\* with the 'Invalid supercell size' ValueError, before bulk or repeat is entered
C3_NonPositiveSizeRejected ==
    (Generated /\ OtherwiseValid(req) /\ NonPositiveSize(req.size)) =>
        /\ result.exception = Exc("ValueError", "Invalid supercell size")
        /\ result.record = None
        /\ StepIndex("bulk") = 0
        /\ StepIndex("repeat") = 0
        /\ StepIndex("validate_input") = Len(result.trace)

\* the request Cu fcc with replication (0,1,1) was rejected
C3_Witness ==
    /\ Generated
    /\ OtherwiseValid(req)
    /\ req.size = PyTuple(<<PyInt(0), PyInt(1), PyInt(1)>>)
    /\ result.exception.msg = "Invalid supercell size"

\* the request pairs an element of the registry with a lattice family the
\* element does not support
UnsupportedFamily(r) ==
    /\ InDict(r.element, ElementsTable)
    /\ r.structure_type.t = "str"
    /\ InList(Lower(r.structure_type.s), VALID_STRUCTURES)
    /\ ~InList(Lower(r.structure_type.s),
               ElementsTable[r.element.s].supported_structures)

\* lattice constant, size and c/a of the request have the types
\* generate_structure documents
OtherArgsTyped(r) ==
    /\ r.lattice_constant = None \/ IsNumber(r.lattice_constant)
    /\ r.size.t = "tuple" /\ Len(r.size.v) = 3
    /\ \A k \in DOMAIN r.size.v : r.size.v[k].t = "int"
    /\ r.c_over_a = None \/ IsNumber(r.c_over_a)

\* C4: a request for a lattice family the element does not support raises
\* and returns no record, whatever lattice_constant and c_over_a are; with
\* arguments of the right types the exception is the ValueError of the
\* pairing check, or 'No default lattice constant' when none was supplied
C4_UnsupportedFamilyRejected ==
    (Generated /\ UnsupportedFamily(req)) =>
        /\ result.record = None
        /\ result.exception.kind \in {"ValueError", "TypeError"}
        /\ OtherArgsTyped(req) =>
              /\ result.exception.kind = "ValueError"
              /\ result.exception.msg \in
                    {"Structure type is not supported for element",
                     "No default lattice constant"}
              /\ req.lattice_constant # None =>
                    result.exception.msg = "Structure type is not supported for element"
        /\ StepIndex("bulk") = 0

\* hcp was asked for Cu with lattice constant and c/a supplied, and refused
C4_Witness ==
    /\ Generated
    /\ req.element = PyStr(<<"C","u">>)
    /\ req.structure_type = PyStr(hcp)
    /\ req.lattice_constant = PyFloat(400)
    /\ req.c_over_a = PyFloat(1600)
    /\ req.size = DEFAULT_SUPERCELL_SIZE
    /\ result.exception.msg = "Structure type is not supported for element"

\* C5: generate_structure with a str element that is not in the registry and
\* a str structure_type raises KeyError, whatever the other arguments; no call
\* of generate_structure ends with the 'Unsupported element' ValueError
C5_UnknownElementKeyError ==
    Generated =>
        /\ (req.element.t = "str" /\ req.structure_type.t = "str"
               /\ req.element.s \notin DOMAIN ElementsTable) =>
              /\ result.exception.kind = "KeyError"
              /\ result.record = None
              /\ StepIndex("validate_input") = 0
        /\ result.exception.msg # "Unsupported element"

\* element 'XX' was asked for with otherwise valid arguments: KeyError
C5_Witness ==
    /\ Generated
    /\ req.element = PyStr(<<"X","X">>)
    /\ req.structure_type = PyStr(fcc)
    /\ req.lattice_constant = PyFloat(400)
    /\ req.size = DEFAULT_SUPERCELL_SIZE
    /\ result.exception.kind = "KeyError"

\* the requests that differ from r at most in the letter case of structure_type
CaseVariants(r) ==
    {[r EXCEPT !.structure_type = st] :
        st \in {x \in StructureTypeArgs :
                   x.t = "str" /\ Lower(x.s) = Lower(r.structure_type.s)}}

\* C6: requests that differ only in the letter case of structure_type have
\* the same outcome (record or exception), through generate_structure and
\* through validate_input, and metadata.structure_type is the lower-case name
C6_CaseInsensitive ==
    (pc = "done" /\ req.structure_type.t = "str") =>
        /\ via = "generate_structure" =>
              /\ \A r \in CaseVariants(req) : GenerateStructureOf(r) = result
              /\ result.record # None =>
                    result.record.metadata.structure_type.s = Lower(req.structure_type.s)
        /\ via = "validate_input" =>
              \A r \in CaseVariants(req) : ValidateInputOf(r) = result

\* 'FCC' was asked for and a record returned, with structure_type 'fcc'
C6_Witness ==
    /\ Returned
    /\ req.structure_type = PyStr(<<"F","C","C">>)
    /\ PyStr(fcc) \in {r.structure_type : r \in CaseVariants(req)}
    /\ result.record.metadata.structure_type = PyStr(fcc)

\* C7: in a session, calls with the same arguments have the same outcome
\* (positions, numbers, cell and all the rest), whatever calls came between,
\* and no call changes the registry
C7_Deterministic ==
    /\ \A k1 \in DOMAIN history : \A k2 \in DOMAIN history :
          history[k1].req = history[k2].req => history[k1].result = history[k2].result
    /\ ELEMENTS = ElementsTable

\* the same request was served first and third, with a record, and a call
\* with an explicit lattice constant for the same element came between
C7_Witness ==
    /\ Len(history) = 3
    /\ history[1].req = history[3].req
    /\ history[1].req.lattice_constant = None
    /\ history[1].result.record # None
    /\ history[2].req.element = history[1].req.element
    /\ history[2].req.structure_type = history[1].req.structure_type
    /\ history[2].req.lattice_constant # None
    /\ history[2].result.record # None

\* 0 <= p <= 1 for a fraction p
InUnitInterval(p) == p[1] >= 0 /\ p[1] <= p[2]

\* C8: every atom of a record returned has fractional coordinates relative
\* to the replicated cell (not reduced modulo 1) in [0, 1] on the three axes,
\* and no call fails with 'Some atoms are outside the unit cell'
C8_Containment ==
    Generated =>
        /\ result.exception.msg # "Some atoms are outside the unit cell"
        /\ result.record # None =>
              \A idx \in DOMAIN result.record.positions : \A j \in 1..3 :
                  InUnitInterval(Fractional(result.record.cell,
                                            result.record.positions[idx])[j])

\* a hexagonal supercell was returned with an atom in the last copy along
\* each axis, at a fractional coordinate above 1/2 on the three axes
C8_Witness ==
    /\ Returned
    /\ result.record.metadata.structure_type.s = hcp
    /\ \A c \in 1..3 : Replication(req)[c] >= 2
    /\ \E idx \in DOMAIN result.record.positions : \A j \in 1..3 :
          LET p == Fractional(result.record.cell, result.record.positions[idx])[j]
          IN  2 * p[1] > p[2]

\* the unit cell of a record: the cell bulk() builds from its metadata
UnitCellOf(record) ==
    BulkCell(record.metadata.structure_type.s,
             NumVal(record.metadata.lattice_constant),
             IF record.metadata.structure_type.s = hcp
             THEN NumVal(record.metadata.lattice_constant)
                     * NumVal(record.metadata.c_over_a)
             ELSE 0)

\* C9: row c of the cell of a record returned is row c of the unit cell times
\* the replication count of axis c; replication (1,1,1) returns the unit cell
C9_CellScaling ==
    Returned =>
        /\ \A c \in 1..3 : \A j \in 1..3 :
              result.record.cell[c][j] =
                  Replication(req)[c] * UnitCellOf(result.record)[c][j]
        /\ req.size = PyTuple(<<PyInt(1), PyInt(1), PyInt(1)>>) =>
              result.record.cell = UnitCellOf(result.record)

\* a hexagonal supercell with three different replication counts was returned
C9_Witness ==
    /\ Returned
    /\ result.record.metadata.structure_type.s = hcp
    /\ Replication(req) = <<2, 3, 1>>
    /\ result.record.cell[2][1] = 3 * UnitCellOf(result.record)[2][1]
    /\ result.record.cell[2][1] < 0

\* an argument of the request has a wrong type for the entry point called:
\* element or structure_type not a str, lattice constant not a number (None
\* stands for the default in generate_structure), size not a 3-tuple of ints,
\* c/a neither None nor a number
WrongTyped(r, entry) ==
    \/ r.element.t # "str"
    \/ r.structure_type.t # "str"
    \/ ~IsNumber(r.lattice_constant)
          /\ (entry = "validate_input" \/ r.lattice_constant # None)
    \/ r.size.t # "tuple" \/ Len(r.size.v) # 3
    \/ \E k \in DOMAIN r.size.v : r.size.v[k].t # "int"
    \/ r.c_over_a # None /\ ~IsNumber(r.c_over_a)

\* C10: a call with an argument of a wrong type raises TypeError, through
\* validate_input and through generate_structure, whatever else is wrong
\* with the request
C10_TypeErrorFirst ==
    (pc = "done" /\ WrongTyped(req, via)) => result.exception.kind = "TypeError"

\* validate_structure was called on the structure of req and has ended
Validated == pc = "done" /\ via = "validate_structure"

\* an angle between two cell vectors is outside (0, 180] degrees
AngleOutsideRange(cell) ==
    \E k \in 1..3 : CellAngles(cell)[k].hi <= 0 \/ CellAngles(cell)[k].lo > 180

UnitRequest(r) == [r EXCEPT !.size = PyTuple(<<PyInt(1), PyInt(1), PyInt(1)>>)]

\* C12: in a record returned for the replication (nx, ny, nz), the atom at
\* index ((i*ny + j)*nz + k)*basis_count + b (from 0) is basis atom b, the
\* atom at index b of the unit cell, displaced by i, j, k unit cell vectors
\* along the axes 0, 1, 2, for all 0 <= i < nx, 0 <= j < ny, 0 <= k < nz and
\* 0 <= b < basis_count: i varies slowest, then j, then k, then b
C12_AtomOrdering ==
    Returned =>
        LET n == BasisCount(result.record.metadata.structure_type.s)
            rep == Replication(req)
            unit == GenerateStructureOf(UnitRequest(req)).record
        IN  /\ Len(unit.positions) = n
            /\ \A i \in 0..(rep[1] - 1) : \A j \in 0..(rep[2] - 1) :
               \A k \in 0..(rep[3] - 1) : \A b \in 0..(n - 1) :
                  LET idx == ((i * rep[2] + j) * rep[3] + k) * n + b + 1
                  IN  /\ idx \in DOMAIN result.record.positions
                      /\ result.record.numbers[idx] = unit.numbers[b + 1]
                      /\ \A c \in 1..3 :
                            result.record.positions[idx][c] =
                                unit.positions[b + 1][c] + i * unit.cell[1][c]
                                    + j * unit.cell[2][c] + k * unit.cell[3][c]

\* a hexagonal 2 x 3 x 2 supercell was returned; its last atom, at index
\* ((1*3 + 2)*2 + 1)*2 + 1, is the second basis atom in the copy (1, 2, 1)
C12_Witness ==
    /\ Returned
    /\ result.record.metadata.structure_type.s = hcp
    /\ Replication(req) = <<2, 3, 2>>
    /\ Len(result.record.positions) = 24
    /\ LET unit == GenerateStructureOf(UnitRequest(req)).record
       IN  \A c \in 1..3 :
              result.record.positions[24][c] =
                  unit.positions[2][c] + unit.cell[1][c] + 2 * unit.cell[2][c]
                      + unit.cell[3][c]

\* the request names a registered element and a str structure type that is
\* not one of VALID_STRUCTURES, whatever its letter case
UnrecognisedFamily(r) ==
    /\ InDict(r.element, ElementsTable)
    /\ r.structure_type.t = "str"
    /\ ~InList(Lower(r.structure_type.s), VALID_STRUCTURES)

\* C13, as stated: a request with an unrecognised structure type ends with
\* 'Invalid structure type' and one with a structure type the element does not
\* support with the error of the pairing check, never with 'No default lattice
\* constant', whether or not the caller supplies lattice_constant
C13_ValidateFirst ==
    (Generated /\ OtherArgsTyped(req)) =>
        /\ UnrecognisedFamily(req) =>
              result.exception = Exc("ValueError", "Invalid structure type")
        /\ UnsupportedFamily(req) =>
              result.exception =
                  Exc("ValueError", "Structure type is not supported for element")

\* C13, amended: the default lattice constant is resolved before
\* validate_input is called.  With lattice_constant supplied, an unrecognised
\* structure type ends with 'Invalid structure type' and an unsupported
\* pairing with the error of the pairing check, both raised by validate_input;
\* with lattice_constant left out, both end with 'No default lattice constant'
\* and validate_input is not entered
C13_ResolveFirst ==
    (Generated /\ OtherArgsTyped(req)
        /\ (UnrecognisedFamily(req) \/ UnsupportedFamily(req))) =>
        /\ result.record = None
        /\ StepIndex("defaults") > 0
        /\ req.lattice_constant # None =>
              /\ StepIndex("validate_input") > StepIndex("defaults")
              /\ UnrecognisedFamily(req) =>
                    result.exception = Exc("ValueError", "Invalid structure type")
              /\ UnsupportedFamily(req) =>
                    result.exception =
                        Exc("ValueError", "Structure type is not supported for element")
        /\ req.lattice_constant = None =>
              /\ result.exception = Exc("ValueError", "No default lattice constant")
              /\ StepIndex("validate_input") = 0

\* 'sc' was asked for Cu without a lattice constant: the call ended with
\* 'No default lattice constant' before validate_input
C13_Witness ==
    /\ Generated
    /\ req.element = PyStr(<<"C","u">>)
    /\ req.structure_type = PyStr(<<"s","c">>)
    /\ req.lattice_constant = None
    /\ req.size = DEFAULT_SUPERCELL_SIZE
    /\ req.c_over_a = None
    /\ result.exception.msg = "No default lattice constant"
    /\ StepIndex("validate_input") = 0

====
